---- MODULE Spec2Model ----
(***************************************************************************)
(* Model of src/script/imageHandler.js: the profile-image state of the CV  *)
(* editor (profileImageData / profileImageType), the DOM elements the      *)
(* module reads and writes, the FileReader decodes in flight, the optional *)
(* global AutoUpdate hook and the jsPDF renderer it draws on.              *)
(***************************************************************************)
EXTENDS Integers, Sequences, FiniteSets, TLC

VARIABLES
    profileImageData,   \* let profileImageData (line 7)
    profileImageType,   \* let profileImageType (line 8)
    dom,                \* ids of the elements document.getElementById finds
    previewHidden,      \* 'hidden' in #image-preview.classList
    removeHidden,       \* 'hidden' in #remove-image.classList
    previewSrc,         \* #preview-img.src
    imageNameText,      \* #image-name.textContent
    fileInputValue,     \* #profile-image.value
    autoUpdateDefined,  \* typeof AutoUpdate === 'function'
    listeners,          \* listeners bound by initializeImageHandler
    pending,            \* files whose reader.readAsDataURL has not completed
    last                \* the last call: its name, argument and effects

vars == <<profileImageData, profileImageType, dom, previewHidden, removeHidden,
          previewSrc, imageNameText, fileInputValue, autoUpdateDefined,
          listeners, pending, last>>

ui == <<previewHidden, removeHidden, previewSrc, imageNameText, fileInputValue>>

-----------------------------------------------------------------------------
(* JavaScript values: null, undefined and strings.                         *)

Null == [t |-> "null"]
Undefined == [t |-> "undefined"]
Str(s) == [t |-> "string", v |-> s]

\* JavaScript truthiness of a null / undefined / string value
Truthy(x) == x.t = "string" /\ x.v # ""

\* null or undefined
Absent(x) == x.t \in {"null", "undefined"}

\* String.prototype.startsWith
startsWith(s, prefix) ==
    Len(s) >= Len(prefix) /\ SubSeq(s, 1, Len(prefix)) = prefix

-----------------------------------------------------------------------------
(* Bounds and inputs.                                                      *)

\* the most FileReader decodes in flight at once
MaxPending == 2

\* 5 * 1024 * 1024 (line 25)
MaxFileSize == 5 * 1024 * 1024

\* const imgSize = 70 (line 99)
imgSize == 70

\* the vertical offset of the placement, y - 28 (line 104)
imgYOffset == 28

\* the offset of getImageBottomPosition, headerStartY - 30 (line 126)
headerOffset == 30

Files ==
    { [name |-> "a.png",     type |-> "image/png",  size |-> 2 * 1024 * 1024, content |-> "AAAA"],
      [name |-> "b.jpg",     type |-> "image/jpeg", size |-> MaxFileSize,     content |-> "BBBB"],
      [name |-> "big.png",   type |-> "image/png",  size |-> MaxFileSize + 1, content |-> "CCCC"],
      [name |-> "notes.txt", type |-> "text/plain", size |-> 1024,            content |-> "EEEE"] }

\* event.target.files: no file selected, or one file
Events == {<< >>} \cup { <<f>> : f \in Files }

SavedImage == Str("data:image/png;base64,SSSS")

\* saved CV objects; a missing key reads as undefined
SavedObjects ==
    { [profileImage |-> Undefined,  profileImageType |-> Undefined],
      [profileImage |-> SavedImage, profileImageType |-> Str("image/png")],
      [profileImage |-> SavedImage, profileImageType |-> Undefined],
      [profileImage |-> Undefined,  profileImageType |-> Str("image/png")] }

\* jsPDF documents: addImage succeeds or throws
Docs == { [throws |-> FALSE], [throws |-> TRUE] }

\* <<marginLeft, y>> of addImageToPDF
AddArgs == { <<10, 100>>, <<0, 28>> }
BottomArgs == { <<100, 70, 5>>, <<0, 0, 0>> }

ElementIds == {"profile-image", "image-preview", "preview-img", "image-name", "remove-image"}

PreviewIds == {"image-preview", "preview-img", "image-name", "remove-image"}

\* the pages considered: every element present, one element missing, no element
DomConfigs == {ElementIds, {}} \cup { ElementIds \ {e} : e \in ElementIds }

\* the shape of the record kept in last
Call(op, arg) ==
    [op |-> op, arg |-> arg, ret |-> Undefined, calls |-> << >>,
     hook |-> FALSE, alert |-> "", log |-> FALSE]

-----------------------------------------------------------------------------
(* Pure parts of the module.                                               *)

\* file.type.startsWith('image/') (line 19)
isImageType(file) == startsWith(file.type, "image/")

\* mutant: the size limit is twice the one of line 25
exceedsSizeLimit_Lax(file) == file.size > 2 * MaxFileSize

\* file.size > 5 * 1024 * 1024 (line 25)
exceedsSizeLimit(file) == file.size > MaxFileSize

\* FileReader.readAsDataURL: the data URL handed to onload as e.target.result
readAsDataURL(file) == Str("data:" \o file.type \o ";base64," \o file.content)

\* mutant: onload stores a fixed type, not the file's
onloadState_FixedType(file, result) == [data |-> result, type |-> Str("image/png")]

\* the assignments of reader.onload (lines 32-33)
onloadState(file, result) == [data |-> result, type |-> Str(file.type)]

\* mutant: removeProfileImage forgets to clear profileImageType
removedState_KeepsType == [data |-> Null, type |-> profileImageType]

\* the assignments of removeProfileImage (lines 68-69)
removedState == [data |-> Null, type |-> Null]

\* mutant: loadImageFromData drops the saved type
loadedState_DropsType(obj) == [data |-> obj.profileImage, type |-> Null]

\* the assignments of loadImageFromData (lines 135-136)
loadedState(obj) == [data |-> obj.profileImage, type |-> obj.profileImageType]

\* mutant: AutoUpdate is never called
autoUpdateInvoked_Never == FALSE

\* typeof AutoUpdate === 'function' (lines 38, 81): whether AutoUpdate() is called
autoUpdateInvoked == autoUpdateDefined

\* getImageData (lines 149-154)
getImageData == [profileImage |-> profileImageData, profileImageType |-> profileImageType]

\* hasImage (lines 175-177)
hasImage == Truthy(profileImageData)

\* getImageDataString (lines 183-185)
getImageDataString == profileImageData

\* getImageType (lines 191-193)
getImageType == profileImageType

\* mutant: the bottom is computed with the offset of the placement, y - 28
getImageBottomPosition_Offset28(headerStartY, imageHeight, padding) ==
    IF ~Truthy(profileImageData) THEN 0
    ELSE (headerStartY - imgYOffset) + imageHeight + padding

\* getImageBottomPosition (lines 124-127)
getImageBottomPosition(headerStartY, imageHeight, padding) ==
    IF ~Truthy(profileImageData) THEN 0
    ELSE (headerStartY - headerOffset) + imageHeight + padding

\* mutant: the image is placed at y - 30, the offset of getImageBottomPosition
addImageToPDF_Offset30(doc, marginLeft, y) ==
    IF Truthy(profileImageData)
    THEN [ret |-> [width |-> imgSize, height |-> imgSize, hasImage |-> TRUE],
          calls |-> <<[data |-> profileImageData,
                       format |-> IF Truthy(profileImageType) THEN profileImageType
                                  ELSE Str("JPEG"),
                       x |-> marginLeft, y |-> y - headerOffset,
                       w |-> imgSize, h |-> imgSize]>>,
          log |-> doc.throws, thrown |-> FALSE]
    ELSE [ret |-> [width |-> 0, height |-> 0, hasImage |-> FALSE],
          calls |-> << >>, log |-> FALSE, thrown |-> FALSE]

\* mutant: the size is set before the test of profileImageData
addImageToPDF_AlwaysSized(doc, marginLeft, y) ==
    IF Truthy(profileImageData)
    THEN [ret |-> [width |-> imgSize, height |-> imgSize, hasImage |-> TRUE],
          calls |-> <<[data |-> profileImageData,
                       format |-> IF Truthy(profileImageType) THEN profileImageType
                                  ELSE Str("JPEG"),
                       x |-> marginLeft, y |-> y - imgYOffset,
                       w |-> imgSize, h |-> imgSize]>>,
          log |-> doc.throws, thrown |-> FALSE]
    ELSE [ret |-> [width |-> imgSize, height |-> imgSize, hasImage |-> FALSE],
          calls |-> << >>, log |-> FALSE, thrown |-> FALSE]

\* mutant: the size is set after doc.addImage, so a throw leaves it 0
addImageToPDF_ZeroOnFailure(doc, marginLeft, y) ==
    IF Truthy(profileImageData)
    THEN [ret |-> [width |-> IF doc.throws THEN 0 ELSE imgSize,
                   height |-> IF doc.throws THEN 0 ELSE imgSize, hasImage |-> TRUE],
          calls |-> <<[data |-> profileImageData,
                       format |-> IF Truthy(profileImageType) THEN profileImageType
                                  ELSE Str("JPEG"),
                       x |-> marginLeft, y |-> y - imgYOffset,
                       w |-> imgSize, h |-> imgSize]>>,
          log |-> doc.throws, thrown |-> FALSE]
    ELSE [ret |-> [width |-> 0, height |-> 0, hasImage |-> FALSE],
          calls |-> << >>, log |-> FALSE, thrown |-> FALSE]

\* mutant: the fallback format is 'PNG'
addImageToPDF_FallbackPNG(doc, marginLeft, y) ==
    IF Truthy(profileImageData)
    THEN [ret |-> [width |-> imgSize, height |-> imgSize, hasImage |-> TRUE],
          calls |-> <<[data |-> profileImageData,
                       format |-> IF Truthy(profileImageType) THEN profileImageType
                                  ELSE Str("PNG"),
                       x |-> marginLeft, y |-> y - imgYOffset,
                       w |-> imgSize, h |-> imgSize]>>,
          log |-> doc.throws, thrown |-> FALSE]
    ELSE [ret |-> [width |-> 0, height |-> 0, hasImage |-> FALSE],
          calls |-> << >>, log |-> FALSE, thrown |-> FALSE]

\* addImageToPDF (lines 93-115): the returned object, the doc.addImage calls made,
\* whether the catch block logged and whether an exception left the function
addImageToPDF(doc, marginLeft, y) ==
    IF Truthy(profileImageData)
    THEN LET imageWidth == imgSize
             imageHeight == imgSize
             format == IF Truthy(profileImageType) THEN profileImageType ELSE Str("JPEG")
             call == [data |-> profileImageData, format |-> format,
                      x |-> marginLeft, y |-> y - imgYOffset,
                      w |-> imageWidth, h |-> imageHeight]
         IN  [ret |-> [width |-> imageWidth, height |-> imageHeight,
                       hasImage |-> Truthy(profileImageData)],
              calls |-> <<call>>, log |-> doc.throws, thrown |-> FALSE]
    ELSE [ret |-> [width |-> 0, height |-> 0, hasImage |-> Truthy(profileImageData)],
          calls |-> << >>, log |-> FALSE, thrown |-> FALSE]

-----------------------------------------------------------------------------
(* State-changing parts.                                                   *)

\* mutant: each element is updated if it exists, whatever the others
showImagePreview_Partial(fileName) ==
    /\ previewSrc' = IF "preview-img" \in dom THEN profileImageData' ELSE previewSrc
    /\ imageNameText' = IF "image-name" \in dom THEN fileName ELSE imageNameText
    /\ previewHidden' = IF "image-preview" \in dom THEN FALSE ELSE previewHidden
    /\ removeHidden' = IF "remove-image" \in dom THEN FALSE ELSE removeHidden

\* mutant: the remove button is not revealed
showImagePreview_KeepsRemoveHidden(fileName) ==
    IF PreviewIds \subseteq dom
    THEN /\ previewSrc' = profileImageData'
         /\ imageNameText' = fileName
         /\ previewHidden' = FALSE
         /\ UNCHANGED removeHidden
    ELSE UNCHANGED <<previewSrc, imageNameText, previewHidden, removeHidden>>

\* showImagePreview (lines 50-62); reads the profileImageData just assigned
showImagePreview(fileName) ==
    IF PreviewIds \subseteq dom
    THEN /\ previewSrc' = profileImageData'
         /\ imageNameText' = fileName
         /\ previewHidden' = FALSE
         /\ removeHidden' = FALSE
    ELSE UNCHANGED <<previewSrc, imageNameText, previewHidden, removeHidden>>

\* mutant: the page is updated only if all three elements exist
removeProfileImage_AllOrNothing ==
    /\ profileImageData' = removedState.data
    /\ profileImageType' = removedState.type
    /\ IF {"image-preview", "remove-image", "profile-image"} \subseteq dom
       THEN previewHidden' = TRUE /\ removeHidden' = TRUE /\ fileInputValue' = ""
       ELSE UNCHANGED <<previewHidden, removeHidden, fileInputValue>>
    /\ UNCHANGED <<previewSrc, imageNameText>>

\* mutant: classList.toggle('hidden') instead of classList.add('hidden')
removeProfileImage_Toggle ==
    /\ profileImageData' = removedState.data
    /\ profileImageType' = removedState.type
    /\ previewHidden' = IF "image-preview" \in dom THEN ~previewHidden ELSE previewHidden
    /\ removeHidden' = IF "remove-image" \in dom THEN ~removeHidden ELSE removeHidden
    /\ fileInputValue' = IF "profile-image" \in dom THEN "" ELSE fileInputValue
    /\ UNCHANGED <<previewSrc, imageNameText>>

\* removeProfileImage (lines 67-84), without the record of the call
removeProfileImage ==
    /\ profileImageData' = removedState.data
    /\ profileImageType' = removedState.type
    /\ previewHidden' = IF "image-preview" \in dom THEN TRUE ELSE previewHidden
    /\ removeHidden' = IF "remove-image" \in dom THEN TRUE ELSE removeHidden
    /\ fileInputValue' = IF "profile-image" \in dom THEN "" ELSE fileInputValue
    /\ UNCHANGED <<previewSrc, imageNameText>>

\* mutant: the else branch clears the two variables itself and leaves the page alone
loadImageFromData_NoUI(obj, hook) ==
    IF Truthy(obj.profileImage)
    THEN /\ profileImageData' = loadedState(obj).data
         /\ profileImageType' = loadedState(obj).type
         /\ showImagePreview("Loaded from save file")
         /\ UNCHANGED fileInputValue
         /\ hook = FALSE
    ELSE /\ profileImageData' = Null
         /\ profileImageType' = Null
         /\ UNCHANGED ui
         /\ hook = FALSE

\* loadImageFromData (lines 133-143), without the record of the call:
\* hook is whether AutoUpdate() was called
loadImageFromData(obj, hook) ==
    IF Truthy(obj.profileImage)
    THEN /\ profileImageData' = loadedState(obj).data
         /\ profileImageType' = loadedState(obj).type
         /\ showImagePreview("Loaded from save file")
         /\ UNCHANGED fileInputValue
         /\ hook = FALSE
    ELSE /\ removeProfileImage
         /\ hook = autoUpdateInvoked

-----------------------------------------------------------------------------
(* Actions: one per exported function, callback or environment step.       *)

Init ==
    /\ profileImageData = Null
    /\ profileImageType = Null
    /\ dom \in DomConfigs
    /\ previewHidden = TRUE
    /\ removeHidden = TRUE
    /\ previewSrc = Str("")
    /\ imageNameText = ""
    /\ fileInputValue = ""
    /\ autoUpdateDefined \in BOOLEAN
    /\ listeners = {}
    /\ pending = << >>
    /\ last = Call("init", << >>)

\* mutant: a valid upload clears the current image before the read starts
HandleImageUpload_ClearsFirst(files) ==
    /\ IF files = << >>
       THEN /\ UNCHANGED <<pending, profileImageData, profileImageType>>
            /\ last' = Call("handleImageUpload", files)
       ELSE LET file == files[1] IN
            IF ~isImageType(file)
            THEN /\ UNCHANGED <<pending, profileImageData, profileImageType>>
                 /\ last' = [Call("handleImageUpload", files)
                               EXCEPT !.alert = "Please select a valid image file."]
            ELSE IF exceedsSizeLimit(file)
            THEN /\ UNCHANGED <<pending, profileImageData, profileImageType>>
                 /\ last' = [Call("handleImageUpload", files)
                               EXCEPT !.alert = "Image size must be less than 5MB."]
            ELSE /\ Len(pending) < MaxPending
                 /\ pending' = Append(pending, file)
                 /\ profileImageData' = Null
                 /\ profileImageType' = Null
                 /\ last' = Call("handleImageUpload", files)
    /\ UNCHANGED <<dom, ui, autoUpdateDefined, listeners>>

\* handleImageUpload (lines 14-44)
HandleImageUpload(files) ==
    /\ IF files = << >>
       THEN /\ UNCHANGED pending
            /\ last' = Call("handleImageUpload", files)
       ELSE LET file == files[1] IN
            IF ~isImageType(file)
            THEN /\ UNCHANGED pending
                 /\ last' = [Call("handleImageUpload", files)
                               EXCEPT !.alert = "Please select a valid image file."]
            ELSE IF exceedsSizeLimit(file)
            THEN /\ UNCHANGED pending
                 /\ last' = [Call("handleImageUpload", files)
                               EXCEPT !.alert = "Image size must be less than 5MB."]
            ELSE /\ Len(pending) < MaxPending
                 /\ pending' = Append(pending, file)
                 /\ last' = Call("handleImageUpload", files)
    /\ UNCHANGED <<profileImageData, profileImageType, dom, ui, autoUpdateDefined, listeners>>

\* mutant: the file is kept in one shared variable, so onload reads the type of
\* the file selected last
ReaderOnload_SharedFile(i) ==
    LET file == pending[i]
        result == readAsDataURL(file)
    IN  /\ profileImageData' = result
        /\ profileImageType' = Str(pending[Len(pending)].type)
        /\ showImagePreview(file.name)
        /\ pending' = SubSeq(pending, 1, i - 1) \o SubSeq(pending, i + 1, Len(pending))
        /\ last' = [Call("onload",
                         [file |-> file, result |-> result, idx |-> i,
                          afterLater |-> /\ last.op = "onload"
                                         /\ i < last.arg.idx
                                         /\ last.arg.file # file,
                          follows |-> IF last.op \in {"removeProfileImage", "loadImageFromData"}
                                      THEN last.op ELSE "other"])
                      EXCEPT !.hook = autoUpdateInvoked]
        /\ UNCHANGED <<dom, fileInputValue, autoUpdateDefined, listeners>>

\* reader.onload (lines 31-41): the decode of pending[i] completes. The record
\* notes its position among the decodes in flight, whether the decode that
\* completed just before it was of another file selected later, and whether it
\* directly follows a removeProfileImage or loadImageFromData.
ReaderOnload(i) ==
    LET file == pending[i]
        result == readAsDataURL(file)
    IN  /\ profileImageData' = onloadState(file, result).data
        /\ profileImageType' = onloadState(file, result).type
        /\ showImagePreview(file.name)
        /\ pending' = SubSeq(pending, 1, i - 1) \o SubSeq(pending, i + 1, Len(pending))
        /\ last' = [Call("onload",
                         [file |-> file, result |-> result, idx |-> i,
                          afterLater |-> /\ last.op = "onload"
                                         /\ i < last.arg.idx
                                         /\ last.arg.file # file,
                          follows |-> IF last.op \in {"removeProfileImage", "loadImageFromData"}
                                      THEN last.op ELSE "other"])
                      EXCEPT !.hook = autoUpdateInvoked]
        /\ UNCHANGED <<dom, fileInputValue, autoUpdateDefined, listeners>>

\* the platform fails to decode pending[i]: onload never fires (line 43)
ReaderFails(i) ==
    /\ pending' = SubSeq(pending, 1, i - 1) \o SubSeq(pending, i + 1, Len(pending))
    /\ last' = Call("readerFails", pending[i])
    /\ UNCHANGED <<profileImageData, profileImageType, dom, ui, autoUpdateDefined, listeners>>

\* mutant: removal aborts the reads in flight
RemoveProfileImage_AbortsReads ==
    /\ removeProfileImage
    /\ pending' = << >>
    /\ last' = [Call("removeProfileImage",
                     [hadImage |-> hasImage, repeat |-> last.op = "removeProfileImage"])
                  EXCEPT !.hook = autoUpdateInvoked]
    /\ UNCHANGED <<dom, autoUpdateDefined, listeners>>

\* removeProfileImage (lines 67-84)
RemoveProfileImage ==
    /\ removeProfileImage
    /\ last' = [Call("removeProfileImage",
                     [hadImage |-> hasImage, repeat |-> last.op = "removeProfileImage"])
                  EXCEPT !.hook = autoUpdateInvoked]
    /\ UNCHANGED <<dom, autoUpdateDefined, listeners, pending>>

\* mutant: the catch block drops the image that could not be drawn
AddImageToPDF_ClearsOnFailure(doc, marginLeft, y) ==
    LET r == addImageToPDF(doc, marginLeft, y) IN
    /\ last' = [Call("addImageToPDF", [doc |-> doc, marginLeft |-> marginLeft, y |-> y])
                  EXCEPT !.ret = IF r.thrown THEN "exception" ELSE r.ret,
                         !.calls = r.calls, !.log = r.log]
    /\ profileImageData' = IF r.log THEN Null ELSE profileImageData
    /\ profileImageType' = IF r.log THEN Null ELSE profileImageType
    /\ UNCHANGED <<dom, ui, autoUpdateDefined, listeners, pending>>

\* addImageToPDF (lines 93-115)
AddImageToPDF(doc, marginLeft, y) ==
    LET r == addImageToPDF(doc, marginLeft, y) IN
    /\ last' = [Call("addImageToPDF", [doc |-> doc, marginLeft |-> marginLeft, y |-> y])
                  EXCEPT !.ret = IF r.thrown THEN "exception" ELSE r.ret,
                         !.calls = r.calls, !.log = r.log]
    /\ UNCHANGED <<profileImageData, profileImageType, dom, ui, autoUpdateDefined,
                   listeners, pending>>

\* getImageBottomPosition (lines 124-127)
GetImageBottomPosition(a) ==
    /\ last' = [Call("getImageBottomPosition", a)
                  EXCEPT !.ret = getImageBottomPosition(a[1], a[2], a[3])]
    /\ UNCHANGED <<profileImageData, profileImageType, dom, ui, autoUpdateDefined,
                   listeners, pending>>

\* loadImageFromData (lines 133-143)
LoadImageFromData(obj) ==
    \E hook \in BOOLEAN :
        /\ loadImageFromData(obj, hook)
        /\ last' = [Call("loadImageFromData",
                         [obj |-> obj, hadImage |-> hasImage, same |-> obj = getImageData])
                      EXCEPT !.hook = hook]
        /\ UNCHANGED <<dom, autoUpdateDefined, listeners, pending>>

\* getImageData (lines 149-154)
GetImageData ==
    /\ last' = [Call("getImageData", << >>) EXCEPT !.ret = getImageData]
    /\ UNCHANGED <<profileImageData, profileImageType, dom, ui, autoUpdateDefined,
                   listeners, pending>>

\* initializeImageHandler (lines 159-169)
InitializeImageHandler ==
    /\ listeners' = listeners
          \cup (IF "profile-image" \in dom
                THEN {<<"profile-image", "change", "handleImageUpload">>} ELSE {})
          \cup (IF "remove-image" \in dom
                THEN {<<"remove-image", "click", "removeProfileImage">>} ELSE {})
    /\ last' = Call("initializeImageHandler", << >>)
    /\ UNCHANGED <<profileImageData, profileImageType, dom, ui, autoUpdateDefined, pending>>

\* hasImage (lines 175-177)
HasImage ==
    /\ last' = [Call("hasImage", << >>) EXCEPT !.ret = hasImage]
    /\ UNCHANGED <<profileImageData, profileImageType, dom, ui, autoUpdateDefined,
                   listeners, pending>>

\* getImageDataString (lines 183-185)
GetImageDataString ==
    /\ last' = [Call("getImageDataString", << >>) EXCEPT !.ret = getImageDataString]
    /\ UNCHANGED <<profileImageData, profileImageType, dom, ui, autoUpdateDefined,
                   listeners, pending>>

\* getImageType (lines 191-193)
GetImageType ==
    /\ last' = [Call("getImageType", << >>) EXCEPT !.ret = getImageType]
    /\ UNCHANGED <<profileImageData, profileImageType, dom, ui, autoUpdateDefined,
                   listeners, pending>>

\* the page defines or removes the global AutoUpdate (lines 38, 81)
SetAutoUpdate ==
    /\ autoUpdateDefined' = ~autoUpdateDefined
    /\ last' = Call("setAutoUpdate", << >>)
    /\ UNCHANGED <<profileImageData, profileImageType, dom, ui, listeners, pending>>

\* the user picks a file in #profile-image: the browser sets its value (lines 74, 78)
UserPicksFile ==
    /\ "profile-image" \in dom
    /\ fileInputValue = ""
    /\ fileInputValue' = "C:\\fakepath\\file"
    /\ last' = Call("userPicksFile", << >>)
    /\ UNCHANGED <<profileImageData, profileImageType, dom, previewHidden, removeHidden,
                   previewSrc, imageNameText, autoUpdateDefined, listeners, pending>>

Next ==
    \/ \E files \in Events : HandleImageUpload(files)
    \/ \E i \in 1..Len(pending) : ReaderOnload(i)
    \/ \E i \in 1..Len(pending) : ReaderFails(i)
    \/ RemoveProfileImage
    \/ \E doc \in Docs, a \in AddArgs : AddImageToPDF(doc, a[1], a[2])
    \/ \E a \in BottomArgs : GetImageBottomPosition(a)
    \/ \E obj \in SavedObjects \cup {getImageData} : LoadImageFromData(obj)
    \/ GetImageData
    \/ InitializeImageHandler
    \/ HasImage
    \/ GetImageDataString
    \/ GetImageType
    \/ SetAutoUpdate
    \/ UserPicksFile

Spec == Init /\ [][Next]_vars

-----------------------------------------------------------------------------
(* Properties.                                                             *)

PreviewVisible == "image-preview" \in dom /\ ~previewHidden
RemoveVisible == "remove-image" \in dom /\ ~removeHidden

\* what a user or caller can observe of the image and its controls
Observable == <<profileImageData, profileImageType, previewHidden, removeHidden,
                previewSrc, imageNameText, fileInputValue>>

Paired == Absent(profileImageData) <=> Absent(profileImageType)

\* C1 as stated: in every reachable state the image data is absent if and only
\* if the media type is absent.
C1_PairingInvariant == Paired

\* C1 amended: absent data implies an absent media type in every reachable
\* state, and the pairing is broken only by a loadImageFromData whose object
\* has profileImage and no profileImageType.
C1_PairingExceptUntypedLoad ==
    [][/\ Absent(profileImageData) => Absent(profileImageType)
       /\ Absent(profileImageData') => Absent(profileImageType')
       /\ (Paired /\ ~Paired') =>
             /\ last'.op = "loadImageFromData"
             /\ Truthy(last'.arg.obj.profileImage)
             /\ Absent(last'.arg.obj.profileImageType)]_vars

C1_Witness ==
    /\ last.op = "loadImageFromData"
    /\ Absent(last.arg.obj.profileImageType)
    /\ hasImage
    /\ Absent(profileImageType)

\* C2: an upload of a file whose type does not start with "image/" or whose
\* size is above 5*1024*1024 alerts, and changes neither the image, the decodes
\* in flight nor the page, and does not call AutoUpdate.
C2_RejectedUploadChangesNothing ==
    [][\A f \in Files :
          (/\ last'.op = "handleImageUpload"
           /\ last'.arg = <<f>>
           /\ (~startsWith(f.type, "image/") \/ f.size > 5 * 1024 * 1024))
          => /\ last'.alert # ""
             /\ profileImageData' = profileImageData
             /\ profileImageType' = profileImageType
             /\ pending' = pending
             /\ ui' = ui
             /\ ~last'.hook]_vars

C2_Witness ==
    /\ last.op = "handleImageUpload"
    /\ last.arg # << >>
    /\ last.arg[1].size = 5 * 1024 * 1024 + 1
    /\ last.alert # ""
    /\ hasImage
    /\ pending = << >>

\* C3 as stated: after the decode completion of a valid upload hasImage is
\* true, the type is the file's, the data is the decoded data URI and the
\* preview and remove controls are visible.
C3_UploadCompletionShowsPreview ==
    (/\ last.op = "onload"
     /\ startsWith(last.arg.file.type, "image/")
     /\ last.arg.file.size <= 5 * 1024 * 1024)
    => /\ hasImage
       /\ getImageType = Str(last.arg.file.type)
       /\ getImageDataString = last.arg.result
       /\ PreviewVisible
       /\ RemoveVisible

\* C3 amended: the same, with the controls visible whenever all four preview
\* elements exist.
C3_UploadCompletionShowsPreviewIfPresent ==
    (/\ last.op = "onload"
     /\ startsWith(last.arg.file.type, "image/")
     /\ last.arg.file.size <= 5 * 1024 * 1024)
    => /\ hasImage
       /\ getImageType = Str(last.arg.file.type)
       /\ getImageDataString = last.arg.result
       /\ (PreviewIds \subseteq dom => PreviewVisible /\ RemoveVisible)

C3_Witness ==
    /\ last.op = "onload"
    /\ last.arg.file.type = "image/jpeg"
    /\ last.arg.file.size = 5 * 1024 * 1024
    /\ getImageType = Str("image/jpeg")
    /\ PreviewVisible
    /\ RemoveVisible

\* C4: a removeProfileImage that directly follows a removeProfileImage leaves
\* the observable state as the first one left it: no data, no type, controls
\* hidden, file input reset.
C4_RemoveIdempotent ==
    [][(last.op = "removeProfileImage" /\ last'.op = "removeProfileImage")
        => /\ Observable' = Observable
           /\ Absent(profileImageData')
           /\ Absent(profileImageType')
           /\ ~PreviewVisible'
           /\ ~RemoveVisible'
           /\ ("profile-image" \in dom => fileInputValue' = "")]_vars

C4_Witness ==
    /\ last.op = "removeProfileImage"
    /\ last.arg.repeat
    /\ dom = ElementIds
    /\ previewHidden
    /\ removeHidden

\* C5: with an image present, loadImageFromData(getImageData()) leaves
\* profileImageData and profileImageType as they were.
C5_RoundTrip ==
    [][(/\ last'.op = "loadImageFromData"
        /\ last'.arg.obj = getImageData
        /\ hasImage)
        => /\ profileImageData' = profileImageData
           /\ profileImageType' = profileImageType]_vars

C5_Witness ==
    /\ last.op = "loadImageFromData"
    /\ last.arg.same
    /\ last.arg.hadImage
    /\ hasImage
    /\ Truthy(profileImageType)

\* C6: with an image set, loadImageFromData of an object without profileImage
\* does what removeProfileImage does: no data, no type, the controls that exist
\* hidden, the file input reset, AutoUpdate called if defined, nothing else
\* changed.
C6_LoadWithoutImageIsRemove ==
    [][(/\ last'.op = "loadImageFromData"
        /\ ~Truthy(last'.arg.obj.profileImage)
        /\ hasImage)
        => /\ profileImageData' = Null
           /\ profileImageType' = Null
           /\ previewHidden' = (("image-preview" \in dom) \/ previewHidden)
           /\ removeHidden' = (("remove-image" \in dom) \/ removeHidden)
           /\ fileInputValue' = (IF "profile-image" \in dom THEN "" ELSE fileInputValue)
           /\ previewSrc' = previewSrc
           /\ imageNameText' = imageNameText
           /\ pending' = pending
           /\ last'.hook = autoUpdateDefined]_vars

C6_Witness ==
    /\ last.op = "loadImageFromData"
    /\ last.arg.obj.profileImage = Undefined
    /\ last.arg.hadImage
    /\ dom = ElementIds
    /\ last.hook
    /\ ~hasImage
    /\ previewHidden

\* C7 as stated: every step that changes profileImageData or profileImageType
\* while AutoUpdate is defined calls AutoUpdate.
C7_HookAfterEveryChange ==
    [][(/\ <<profileImageData, profileImageType>>' # <<profileImageData, profileImageType>>
        /\ autoUpdateDefined)
        => last'.hook]_vars

\* C7 amended: AutoUpdate is called, if defined, by an upload's completion, by
\* removeProfileImage and by loadImageFromData of an object without
\* profileImage; loadImageFromData of an object with profileImage does not call
\* it, and no other operation does.
C7_HookAfterUploadAndRemoval ==
    /\ last.op \in {"onload", "removeProfileImage"} => last.hook = autoUpdateDefined
    /\ last.op = "loadImageFromData"
         => last.hook = (autoUpdateDefined /\ ~Truthy(last.arg.obj.profileImage))
    /\ last.op \notin {"onload", "removeProfileImage", "loadImageFromData"} => ~last.hook

C7_Witness ==
    /\ last.op = "loadImageFromData"
    /\ Truthy(last.arg.obj.profileImage)
    /\ ~last.arg.hadImage
    /\ hasImage
    /\ autoUpdateDefined
    /\ ~last.hook

\* C8: addImageToPDF with an image present calls doc.addImage exactly once, at
\* (marginLeft, y - 28) with width 70 and height 70 and the current data, and
\* returns {width: 70, height: 70, hasImage: true}; (10, 100) places at (10, 72).
C8_AddPlacesImageOnce ==
    (last.op = "addImageToPDF" /\ hasImage)
    => /\ Len(last.calls) = 1
       /\ last.calls[1].data = profileImageData
       /\ last.calls[1].x = last.arg.marginLeft
       /\ last.calls[1].y = last.arg.y - 28
       /\ last.calls[1].w = 70
       /\ last.calls[1].h = 70
       /\ last.ret = [width |-> 70, height |-> 70, hasImage |-> TRUE]
       /\ (last.arg.marginLeft = 10 /\ last.arg.y = 100
             => last.calls[1].x = 10 /\ last.calls[1].y = 72)

C8_Witness ==
    /\ last.op = "addImageToPDF"
    /\ hasImage
    /\ last.arg.marginLeft = 10
    /\ last.arg.y = 100
    /\ ~last.arg.doc.throws
    /\ Len(last.calls) = 1
    /\ last.calls[1].y = 72

\* C9: addImageToPDF with no image present returns {width: 0, height: 0,
\* hasImage: false} and makes no call to the renderer.
C9_AddWithoutImage ==
    (last.op = "addImageToPDF" /\ ~hasImage)
    => /\ last.ret = [width |-> 0, height |-> 0, hasImage |-> FALSE]
       /\ last.calls = << >>

C9_Witness ==
    /\ last.op = "addImageToPDF"
    /\ ~hasImage
    /\ last.arg.marginLeft = 10
    /\ last.arg.y = 100
    /\ last.calls = << >>

\* C10: when doc.addImage throws with an image present, addImageToPDF catches
\* and logs it, returns {width: 70, height: 70, hasImage: true} and leaves
\* profileImageData and profileImageType unchanged.
C10_RendererFailureSwallowed ==
    [][(/\ last'.op = "addImageToPDF"
        /\ last'.arg.doc.throws
        /\ hasImage)
        => /\ last'.ret = [width |-> 70, height |-> 70, hasImage |-> TRUE]
           /\ last'.log
           /\ profileImageData' = profileImageData
           /\ profileImageType' = profileImageType]_vars

C10_Witness ==
    /\ last.op = "addImageToPDF"
    /\ last.arg.doc.throws
    /\ hasImage
    /\ last.log
    /\ last.ret = [width |-> 70, height |-> 70, hasImage |-> TRUE]

\* everything but the record of the last call
programState == <<profileImageData, profileImageType, dom, ui, autoUpdateDefined,
                  listeners, pending>>

\* C11: getImageBottomPosition returns 0 when no image is present, whatever its
\* arguments, and (headerStartY - 30) + imageHeight + padding when one is
\* (145 for 100, 70, 5); it changes no state.
C11_BottomPosition ==
    [][last'.op = "getImageBottomPosition"
        => /\ last'.ret = (IF hasImage
                           THEN (last'.arg[1] - 30) + last'.arg[2] + last'.arg[3]
                           ELSE 0)
           /\ (hasImage /\ last'.arg = <<100, 70, 5>> => last'.ret = 145)
           /\ programState' = programState]_vars

C11_Witness ==
    /\ last.op = "getImageBottomPosition"
    /\ last.arg = <<100, 70, 5>>
    /\ hasImage
    /\ last.ret = 145

\* C12: showImagePreview, run by an upload's completion and by a
\* loadImageFromData with profileImage, sets the preview source to the current
\* data, the label to the name and reveals both controls if all four elements
\* exist, and otherwise changes no element at all.
C12_ShowPreviewAllOrNothing ==
    [][\A name \in {f.name : f \in Files} \cup {"Loaded from save file"} :
          (\/ last'.op = "onload" /\ last'.arg.file.name = name
           \/ /\ last'.op = "loadImageFromData"
              /\ Truthy(last'.arg.obj.profileImage)
              /\ name = "Loaded from save file")
          => IF PreviewIds \subseteq dom
             THEN /\ previewSrc' = profileImageData'
                  /\ imageNameText' = name
                  /\ ~previewHidden'
                  /\ ~removeHidden'
                  /\ fileInputValue' = fileInputValue
             ELSE ui' = ui]_vars

C12_Witness ==
    /\ last.op = "onload"
    /\ dom = ElementIds \ {"image-name"}
    /\ hasImage
    /\ previewHidden
    /\ removeHidden
    /\ previewSrc = Str("")

\* C13: profileImageData and profileImageType are changed only by an upload's
\* completion, by removeProfileImage and by loadImageFromData; every other
\* operation leaves both as they were.
C13_OnlyThreeWriters ==
    [][/\ <<profileImageData, profileImageType>>' # <<profileImageData, profileImageType>>
          => last'.op \in {"onload", "removeProfileImage", "loadImageFromData"}
       /\ last'.op \in {"addImageToPDF", "getImageBottomPosition", "getImageData",
                        "hasImage", "getImageDataString", "getImageType",
                        "initializeImageHandler", "handleImageUpload"}
          => /\ profileImageData' = profileImageData
             /\ profileImageType' = profileImageType]_vars

C13_Witness ==
    /\ last.op = "initializeImageHandler"
    /\ listeners # {}
    /\ hasImage
    /\ Truthy(profileImageType)

\* C14: handleImageUpload itself changes neither the image nor the page and
\* calls no hook; with no file selected it changes nothing at all; a decode
\* that fails leaves the image and the page as they were and calls no hook.
C14_UploadIsDeferred ==
    [][/\ last'.op = "handleImageUpload"
          => /\ profileImageData' = profileImageData
             /\ profileImageType' = profileImageType
             /\ ui' = ui
             /\ ~last'.hook
             /\ (last'.arg = << >> => programState' = programState)
       /\ last'.op = "readerFails"
          => /\ profileImageData' = profileImageData
             /\ profileImageType' = profileImageType
             /\ ui' = ui
             /\ ~last'.hook]_vars

C14_Witness ==
    /\ last.op = "readerFails"
    /\ dom = ElementIds
    /\ pending = << >>
    /\ ~hasImage
    /\ previewHidden
    /\ removeHidden

\* C15: removeProfileImage always clears both variables and hides the preview
\* container, hides the remove button and resets the file input, each if it
\* exists and whether or not the others do.
C15_RemoveToleratesMissingElements ==
    [][last'.op = "removeProfileImage"
        => /\ profileImageData' = Null
           /\ profileImageType' = Null
           /\ previewHidden' = (IF "image-preview" \in dom THEN TRUE ELSE previewHidden)
           /\ removeHidden' = (IF "remove-image" \in dom THEN TRUE ELSE removeHidden)
           /\ fileInputValue' = (IF "profile-image" \in dom THEN "" ELSE fileInputValue)]_vars

C15_Witness ==
    /\ last.op = "removeProfileImage"
    /\ last.arg.hadImage
    /\ dom = ElementIds \ {"profile-image"}
    /\ previewHidden
    /\ removeHidden
    /\ ~hasImage

\* C16: the format addImageToPDF passes to doc.addImage is profileImageType
\* when it is present and 'JPEG' exactly when an image is present without a
\* type, a state entered only by a loadImageFromData whose object has
\* profileImage and no profileImageType.
C16_FormatHint ==
    [][/\ (last'.op = "addImageToPDF" /\ hasImage)
          => /\ last'.calls # << >>
             /\ last'.calls[1].format =
                   (IF Absent(profileImageType) THEN Str("JPEG") ELSE profileImageType)
             /\ (last'.calls[1].format = Str("JPEG")) <=> Absent(profileImageType)
       /\ (/\ Truthy(profileImageData') /\ Absent(profileImageType')
           /\ ~(Truthy(profileImageData) /\ Absent(profileImageType)))
          => /\ last'.op = "loadImageFromData"
             /\ Truthy(last'.arg.obj.profileImage)
             /\ Absent(last'.arg.obj.profileImageType)]_vars

C16_Witness ==
    /\ last.op = "addImageToPDF"
    /\ hasImage
    /\ Absent(profileImageType)
    /\ last.calls # << >>
    /\ last.calls[1].format = Str("JPEG")

\* C17: whichever decode in flight completes, it stores the data URL and the
\* type of its own file, so the image is always the pair of the file whose
\* decode completed last, also when that file was selected first.
C17_CompletionWritesOwnFile ==
    [][last'.op = "onload"
        => /\ last'.arg.idx \in 1..Len(pending)
           /\ last'.arg.file = pending[last'.arg.idx]
           /\ profileImageData' = readAsDataURL(pending[last'.arg.idx])
           /\ profileImageType' = Str(pending[last'.arg.idx].type)]_vars

C17_Witness ==
    /\ last.op = "onload"
    /\ last.arg.afterLater
    /\ pending = << >>
    /\ last.arg.file.name = "a.png"
    /\ profileImageData = last.arg.result
    /\ profileImageType = Str("image/png")

\* C18 as stated: removeProfileImage and loadImageFromData leave the decodes in
\* flight alone, and a completion that follows one of them installs the file's
\* data and type and shows the preview and remove controls.
C18_CompletionAfterRemoveShowsPreview ==
    [][/\ last'.op \in {"removeProfileImage", "loadImageFromData"} => pending' = pending
       /\ (last'.op = "onload" /\ last'.arg.follows # "other")
          => /\ Truthy(profileImageData')
             /\ profileImageData' = last'.arg.result
             /\ profileImageType' = Str(last'.arg.file.type)
             /\ PreviewVisible'
             /\ RemoveVisible']_vars

\* C18 amended: the same, the controls being shown whenever all four preview
\* elements exist.
C18_CompletionAfterRemoveInstalls ==
    [][/\ last'.op \in {"removeProfileImage", "loadImageFromData"} => pending' = pending
       /\ (last'.op = "onload" /\ last'.arg.follows # "other")
          => /\ Truthy(profileImageData')
             /\ profileImageData' = last'.arg.result
             /\ profileImageType' = Str(last'.arg.file.type)
             /\ (PreviewIds \subseteq dom
                   => PreviewVisible' /\ RemoveVisible' /\ previewSrc' = profileImageData')]_vars

C18_Witness ==
    /\ last.op = "onload"
    /\ last.arg.follows = "removeProfileImage"
    /\ dom = ElementIds
    /\ hasImage
    /\ PreviewVisible
    /\ RemoveVisible

\* C19: on a page with every element, started hidden and without image, the
\* preview and remove controls are visible exactly when an image is present,
\* and when visible the preview source is the current data.
C19_ControlsFollowImage ==
    dom = ElementIds
    => /\ PreviewVisible <=> hasImage
       /\ RemoveVisible <=> hasImage
       /\ PreviewVisible => previewSrc = profileImageData

C19_Witness ==
    /\ dom = ElementIds
    /\ last.op = "onload"
    /\ last.arg.follows = "loadImageFromData"
    /\ pending # << >>
    /\ hasImage
    /\ PreviewVisible
    /\ RemoveVisible
    /\ previewSrc = profileImageData

====
